---- MODULE Spec2Model ----
(***************************************************************************)
(* Model of pkg/component/config/config.go: NewConfig and the steps it     *)
(* runs through hunch.Waterfall (initTimeZone, initWorkDirPath, the two    *)
(* env loads, fromFS, fromFiles, defaults.Set).                            *)
(*                                                                         *)
(* The process-wide state the code touches is explicit: the environment    *)
(* table (environ), time.Local (timeLocal) and the global viper instance   *)
(* (viper).  They outlive one call of NewConfig; Rerun models a further    *)
(* call in the same process.  The context passed to NewConfig is taken to  *)
(* be one that is not cancelled while NewConfig runs.                      *)
(***************************************************************************)
EXTENDS Integers, Sequences, FiniteSets, TLC

\* ---------------------------------------------------------------- bounds
\* Integer config values written in files and env vars are "0".."MaxVal".
MaxVal == 1
\* Paths 1..NumPaths of a file system, numbered in sorted-path order.
NumPaths == 3
\* NewConfig is called at most MaxRuns times in the process.
MaxRuns == 2

\* ------------------------------------------------------------- constants
Nil == "nil"
Unset == "<unset>"
Absent == "<absent>"

\* config.go:23
TZ == "TZ"

\* The destination structure: two int fields bound to these keys.
Keys == {"db.port", "db.pool"}
\* `default:"1"` tags of the destination's fields; 0 is the zero value.
DefaultOf == [k \in Keys |-> 1]
ZeroCfg == [k \in Keys |-> 0]

appName == "app"
EnvVars == {TZ, "APP_DB_PORT", "APP_DB_POOL"}

\* strings.ToUpper(string(appName)), config.go:90 and :113
ToUpper(s) == IF s = "app" THEN "APP" ELSE s

\* viper's mergeWithEnvPrefix followed by the "." -> "_" replacer of
\* config.go:92-93: the environment variable consulted for a key.
EnvKeyOf(prefix, key) ==
    IF prefix = "APP" /\ key = "db.port" THEN "APP_DB_PORT"
    ELSE IF prefix = "APP" /\ key = "db.pool" THEN "APP_DB_POOL"
    ELSE "<none>"

\* Decimal tokens and their values (strconv.ParseInt as mapstructure's weak
\* decoding calls it): IntTokens[i] denotes i - 1.
IntTokens == <<"0", "1", "2", "3", "4">>
Tokens == {IntTokens[i] : i \in 1..(MaxVal + 1)}
ParseOK(s) == \E i \in 1..Len(IntTokens) : IntTokens[i] = s
ParseInt(s) == (CHOOSE i \in 1..Len(IntTokens) : IntTokens[i] = s) - 1

\* ------------------------------------------------------------- time zones
ZoneNames == {"", "UTC", "Asia/Jakarta", "Mars/Phobos"}
NilLoc == "<nil>"
\* Zone abbreviation and offset (seconds east of UTC) of a loaded location.
ZoneData(loc) ==
    IF loc = "Asia/Jakarta" THEN [name |-> "WIB", offset |-> 25200]
    ELSE [name |-> "UTC", offset |-> 0]
HostZones == {[name |-> "UTC", offset |-> 0], [name |-> "WIB", offset |-> 25200]}

\* time.LoadLocation, the value of timeLoadLocation (config.go:48).
LoadLocation(name) ==
    IF name = "" \/ name = "UTC" THEN [loc |-> "UTC", err |-> Nil]
    ELSE IF name = "Asia/Jakarta" THEN [loc |-> name, err |-> Nil]
    ELSE [loc |-> NilLoc, err |-> "unknown time zone"]

\* time.Now().In(loc).Zone(); "Local" is the location the host started with.
Zone(loc, host) == IF loc = "Local" THEN host ELSE ZoneData(loc)

\* os.Getenv
Getenv(env, k) == IF env[k] = Unset THEN "" ELSE env[k]

VARIABLES
    \* arguments of NewConfig and the world it runs in (never changed)
    tzArgs, configPaths, embedFS, afs, osFS, sys, hostZone,
    \* process-wide state
    environ, timeLocal, viper,
    \* one call of NewConfig
    cfg, rd, err, pc, lastVal, results,
    \* whether the call has asked timeLoadLocation for a location
    loadCalled,
    \* what the call read at its start and before the env loads, and what
    \* the previous call returned
    entry, envAtLoad, prev, run

inputs == <<tzArgs, configPaths, embedFS, afs, osFS, sys, hostZone>>
vars == <<tzArgs, configPaths, embedFS, afs, osFS, sys, hostZone,
          environ, timeLocal, viper, cfg, rd, err, pc, lastVal, results,
          loadCalled, entry, envAtLoad, prev, run>>

\* ------------------------------------------------------------ initTimeZone
tzEnsureEnv_Always(tzA, env) == [env EXCEPT ![TZ] = tzA]

tzEnsureEnv_Never(tzA, env) == env

\* config.go:51-59: TZ is written only when it reads as empty.
tzEnsureEnv(tzA, env) ==
    IF Getenv(env, TZ) = "" THEN [env EXCEPT ![TZ] = tzA] ELSE env

tzFallback_Error(base, tl) ==
    [tz |-> "", loc |-> NilLoc, offset |-> 0, err |-> "unknown time zone", timeLocal |-> tl]

\* config.go:63-65: the location did not load.
tzFallback(base, tl) ==
    [tz |-> base.name, loc |-> tl, offset |-> base.offset, err |-> Nil, timeLocal |-> tl]

\* config.go:67-77: the location loaded; z2 is its zone, tz the working name.
tzReconcile(tz, loc, base, z2, tl) ==
    IF base.offset # z2.offset
    THEN [tz |-> z2.name, loc |-> loc, offset |-> z2.offset, err |-> Nil, timeLocal |-> loc]
    ELSE [tz |-> tz, loc |-> loc, offset |-> base.offset, err |-> Nil, timeLocal |-> tl]

\* config.go:50-78.  Returns the four results and the environment and
\* time.Local it leaves behind.
initTimeZone(tzA, env, tl, host, setEnvFails) ==
    IF Getenv(env, TZ) = "" /\ setEnvFails
    THEN [tz |-> "", loc |-> NilLoc, offset |-> 0, err |-> "EnvWriteError",
          environ |-> env, timeLocal |-> tl, loaded |-> FALSE]
    ELSE
      LET env1 == tzEnsureEnv(tzA, env)
          tz1 == IF Getenv(env, TZ) = "" THEN tzA ELSE Getenv(env, TZ)
          base == Zone(tl, host)
          ll == LoadLocation(Getenv(env1, TZ))
          r == IF ll.err # Nil THEN tzFallback(base, tl)
               ELSE tzReconcile(tz1, ll.loc, base, Zone(ll.loc, host), tl)
      IN [tz |-> r.tz, loc |-> r.loc, offset |-> r.offset, err |-> r.err,
          environ |-> env1, timeLocal |-> r.timeLocal, loaded |-> TRUE]

\* ---------------------------------------------------------- initWorkDirPath
\* filepath.Dir of the executable paths the model draws.
Dir(path) == IF path = "/opt/app/bin/app" THEN "/opt/app/bin" ELSE "."

\* config.go:80-87.  executable is Nil when os.Executable fails; homeDir is
\* "" when os.UserHomeDir fails (its error is dropped).
initWorkDirPath(executable, homeDir) ==
    IF executable # Nil THEN Dir(executable) ELSE homeDir

\* ------------------------------------------------------------- env loaders
\* An env file: kind "missing", "malformed" or "ok"; data gives the value of
\* each variable the file sets (Unset: the file does not name it).
NoEnvData == [k \in EnvVars |-> Unset]

godotenvLoad_Overwrite(env, file) ==
    IF file.kind # "ok" THEN [environ |-> env, err |-> "EmbeddedEnvError"]
    ELSE [environ |-> [k \in EnvVars |->
                         IF file.data[k] # Unset THEN file.data[k] ELSE env[k]],
          err |-> Nil]

\* godotenvFS.Load (config.go:159): a variable is written only when the
\* process environment does not hold it.
godotenvLoad(env, file) ==
    IF file.kind # "ok" THEN [environ |-> env, err |-> "EmbeddedEnvError"]
    ELSE [environ |-> [k \in EnvVars |->
                         IF env[k] = Unset /\ file.data[k] # Unset
                         THEN file.data[k] ELSE env[k]],
          err |-> Nil]

\* godotenv.Overload (config.go:164): every variable of the file is written.
godotenvOverload(env, file) ==
    IF file.kind # "ok" THEN [environ |-> env, err |-> "OverloadError"]
    ELSE [environ |-> [k \in EnvVars |->
                         IF file.data[k] # Unset THEN file.data[k] ELSE env[k]],
          err |-> Nil]

\* config.go:163-165: Stat through afs, load through package os.
regularEnvLoad(env, envStat, file) ==
    IF envStat THEN godotenvOverload(env, file).environ ELSE env

\* ------------------------------------------------------------------- viper
\* The global viper instance: the merged config map, the env prefix and
\* whether AutomaticEnv was called.
NoData == [k \in Keys |-> Absent]
ViperZero == [config |-> NoData, envPrefix |-> "", automaticEnv |-> FALSE]

\* viper.SetEnvPrefix, AutomaticEnv (config.go:90-94, 113-117)
viperSetup(v, name) == [v EXCEPT !.envPrefix = ToUpper(name), !.automaticEnv = TRUE]

MergeConfig_KeepOld(config, content) ==
    IF content.kind # "ok" THEN config
    ELSE [k \in Keys |-> IF config[k] = Absent THEN content.data[k] ELSE config[k]]

\* viper.MergeConfig / MergeInConfig of one file's content into the map
\* (config.go:102, 125): a file that does not parse merges nothing.
MergeConfig(config, content) ==
    IF content.kind # "ok" THEN config
    ELSE [k \in Keys |-> IF content.data[k] # Absent THEN content.data[k] ELSE config[k]]

\* viper.AllKeys: only keys some merged file defined.
AllKeys(v) == {k \in Keys : v.config[k] # Absent}

viperGet_NoEnv(v, env, k) == v.config[k]

\* viper.Get with AutomaticEnv: a non-empty environment variable wins over
\* the merged map (viper's getEnv drops an empty value).
viperGet(v, env, k) ==
    LET e == EnvKeyOf(v.envPrefix, k) IN
    IF v.automaticEnv /\ e \in EnvVars /\ env[e] # Unset /\ env[e] # ""
    THEN env[e] ELSE v.config[k]

\* viper.Unmarshal (config.go:108, 131): every known key is decoded into its
\* int field; a value that is no integer leaves the field and is an error.
Unmarshal(c, v, env) ==
    [cfg |-> [k \in Keys |->
                IF k \in AllKeys(v) /\ ParseOK(viperGet(v, env, k))
                THEN ParseInt(viperGet(v, env, k)) ELSE c[k]],
     err |-> IF \E k \in AllKeys(v) : ~ParseOK(viperGet(v, env, k))
             THEN "UnmarshalError" ELSE Nil]

\* -------------------------------------------------------------- file layers
Paths == 1..NumPaths
\* A pattern is the set of paths it matches, or malformed (bad).
\* PathEmbedsParamsFiles / PathRegularParamsFiles (config.go:171, 176): the
\* fixed pattern of a layer's params directory, which holds path 1.
ParamsPattern == [bad |-> FALSE, paths |-> {1}]

RECURSIVE SortSet_Descending(_)
SortSet_Descending(S) ==
    IF S = {} THEN <<>>
    ELSE LET m == CHOOSE x \in S : \A y \in S : y <= x
         IN <<m>> \o SortSet_Descending(S \ {m})

RECURSIVE SortSet(_)
\* The matches of one Glob call come back in sorted order.
SortSet(S) ==
    IF S = {} THEN <<>>
    ELSE LET m == CHOOSE x \in S : \A y \in S : x <= y
         IN <<m>> \o SortSet(S \ {m})

\* fs.Glob / afero.Glob (config.go:98, 121)
Glob(files, pat) ==
    IF pat.bad THEN [matches |-> <<>>, err |-> "ErrBadPattern"]
    ELSE [matches |-> SortSet({p \in pat.paths : files[p].kind # "absent"}), err |-> Nil]

RECURSIVE mergeMatches(_, _, _)
\* config.go:100-104 and 122-127: the inner loop over one pattern's matches.
\* An "unreadable" file fails ReadFile (embedded) or Stat (on disk).
mergeMatches(files, matches, config) ==
    IF matches = <<>> THEN config
    ELSE mergeMatches(files, Tail(matches),
                      IF files[Head(matches)].kind # "unreadable"
                      THEN MergeConfig(config, files[Head(matches)])
                      ELSE config)

RECURSIVE mergePatterns(_, _, _)
\* config.go:97-106 and 120-129: the outer loop over the patterns.
mergePatterns(files, patterns, config) ==
    IF patterns = <<>> THEN config
    ELSE mergePatterns(files, Tail(patterns),
                       IF Glob(files, Head(patterns)).err = Nil
                       THEN mergeMatches(files, Glob(files, Head(patterns)).matches, config)
                       ELSE config)

\* config.go:89-109
fromFS(files, patterns, c, v, env, name) ==
    LET v1 == viperSetup(v, name)
        v2 == [v1 EXCEPT !.config = mergePatterns(files, patterns, v1.config)]
        u == Unmarshal(c, v2, env)
    IN [cfg |-> u.cfg, viper |-> v2, err |-> u.err]

fromFiles_UnmarshalFirst(patterns, c, files, v, env, name) ==
    LET v1 == viperSetup(v, name)
        u == Unmarshal(c, v1, env)
    IN [cfg |-> u.cfg,
        viper |-> [v1 EXCEPT !.config = mergePatterns(files, patterns, v1.config)],
        err |-> u.err]

\* config.go:111-132
fromFiles(patterns, c, files, v, env, name) ==
    LET v1 == viperSetup(v, name)
        v2 == [v1 EXCEPT !.config = mergePatterns(files, patterns, v1.config)]
        u == Unmarshal(c, v2, env)
    IN [cfg |-> u.cfg, viper |-> v2, err |-> u.err]

\* ---------------------------------------------------------------- defaults
\* defaults.Set(ptr): ptr must point to a struct; every field still at its
\* zero value is given its declared default.
defaultsSet(pointee, c) ==
    IF pointee # "struct" THEN [cfg |-> c, err |-> "errInvalidType"]
    ELSE [cfg |-> [k \in Keys |-> IF c[k] = 0 THEN DefaultOf[k] ELSE c[k]], err |-> Nil]

\* config.go:180: cfg is an interface{} parameter, so &cfg points to an
\* interface value, not to the caller's struct.
applyDefaults(c) == defaultsSet("interface", c)

\* ------------------------------------------------------------------- inputs
EnvFileOf(d) == [kind |-> "ok", data |-> d]
MissingEnv == [kind |-> "missing", data |-> NoEnvData]
MalformedEnv == [kind |-> "malformed", data |-> NoEnvData]

OkFile(d) == [kind |-> "ok", data |-> d]
AbsentFile == [kind |-> "absent", data |-> NoData]
UnreadableFile == [kind |-> "unreadable", data |-> NoData]
MalformedFile == [kind |-> "malformed", data |-> NoData]
BrokenFiles == {UnreadableFile, MalformedFile}

\* Values a config file can give a key: an integer or a word that is none.
FileVals == Tokens \cup {"x"}
\* Files that define any subset of the keys.
AnyFiles == {OkFile(d) : d \in [Keys -> FileVals \cup {Absent}]}
\* The file at path p that defines db.port only, with a value of its own.
OwnFile(p) == OkFile([NoData EXCEPT !["db.port"] = IntTokens[p]])

NoFiles == [p \in Paths |-> AbsentFile]
OnlyParams(f) == [NoFiles EXCEPT ![1] = f]
BaseFile == OkFile([NoData EXCEPT !["db.port"] = "1"])
\* An on-disk params file whose db.port is no value an env file gives.
OverrideFile == OkFile([NoData EXCEPT !["db.port"] = IntTokens[Len(IntTokens)]])

Patterns ==
    {[bad |-> TRUE, paths |-> {}], [bad |-> FALSE, paths |-> Paths]}
    \cup {[bad |-> FALSE, paths |-> {p}] : p \in Paths}
PatternLists ==
    {<<>>} \cup {<<a>> : a \in Patterns} \cup {<<a, b>> : a \in Patterns, b \in Patterns}

NoEnviron == [k \in EnvVars |-> Unset]
BaseSys == [setEnvFails |-> FALSE, executable |-> "/opt/app/bin/app", homeDir |-> "/home/u"]
UTCZone == [name |-> "UTC", offset |-> 0]

\* Env-file and environment contents over TZ and APP_DB_PORT.
EnvDatas ==
    {[NoEnvData EXCEPT ![TZ] = z, !["APP_DB_PORT"] = v] :
        z \in {Unset, "UTC", "Mars/Phobos"}, v \in {Unset, ""} \cup Tokens}
EnvFiles == {MissingEnv, MalformedEnv} \cup {EnvFileOf(d) : d \in EnvDatas}

\* The time-zone resolver's and the work-dir resolver's inputs vary.
InputsTZ ==
    /\ tzArgs \in ZoneNames
    /\ environ \in {[NoEnviron EXCEPT ![TZ] = z] : z \in {Unset} \cup ZoneNames}
    /\ hostZone \in HostZones
    /\ sys \in [setEnvFails : BOOLEAN, executable : {Nil, "/opt/app/bin/app"},
                homeDir : {"", "/home/u"}]
    /\ configPaths = <<>>
    /\ embedFS = [env |-> EnvFileOf(NoEnvData), files |-> OnlyParams(BaseFile)]
    /\ afs = [envStat |-> FALSE, files |-> NoFiles]
    /\ osFS = [env |-> MissingEnv]

\* The env files and the environment vary.
InputsEnv ==
    /\ tzArgs = "Asia/Jakarta"
    /\ environ \in {[NoEnviron EXCEPT ![TZ] = z, !["APP_DB_PORT"] = v] :
                      z \in {Unset, "UTC"}, v \in {Unset, ""} \cup Tokens}
    /\ hostZone = UTCZone
    /\ sys = BaseSys
    /\ configPaths = <<>>
    /\ embedFS \in {[env |-> e, files |-> OnlyParams(BaseFile)] : e \in EnvFiles}
    /\ afs \in {[envStat |-> b, files |-> OnlyParams(OverrideFile)] : b \in BOOLEAN}
    /\ osFS \in {[env |-> e] : e \in EnvFiles}

\* One file per layer, in the params directory; the files and the
\* environment variable of db.port vary.
InputsLayers ==
    /\ tzArgs = "Asia/Jakarta"
    /\ environ \in {[NoEnviron EXCEPT !["APP_DB_PORT"] = v] :
                      v \in {Unset, "", "x"} \cup Tokens}
    /\ hostZone = UTCZone
    /\ sys = BaseSys
    /\ configPaths = <<>>
    /\ embedFS \in {[env |-> EnvFileOf(NoEnvData), files |-> OnlyParams(f)] :
                      f \in AnyFiles \cup BrokenFiles \cup {AbsentFile}}
    /\ afs \in {[envStat |-> FALSE, files |-> OnlyParams(f)] :
                  f \in AnyFiles \cup BrokenFiles \cup {AbsentFile}}
    /\ osFS = [env |-> MissingEnv]

\* Several files and search patterns in one layer.  The file at path p, when
\* it is readable, holds a db.port value of its own, so the value that ends up
\* in the configuration names the file it came from.
InputsOrder ==
    /\ tzArgs = "Asia/Jakarta"
    /\ environ = NoEnviron
    /\ hostZone = UTCZone
    /\ sys = BaseSys
    /\ configPaths \in PatternLists
    /\ \E fs \in {f \in [Paths -> {OwnFile(p) : p \in Paths} \cup BrokenFiles \cup {AbsentFile}] :
                     \A p \in Paths : f[p].kind = "ok" => f[p] = OwnFile(p)} :
          \/ /\ embedFS = [env |-> EnvFileOf(NoEnvData), files |-> fs]
             /\ afs = [envStat |-> FALSE, files |-> NoFiles]
          \/ /\ embedFS = [env |-> EnvFileOf(NoEnvData), files |-> OnlyParams(BaseFile)]
             /\ afs = [envStat |-> FALSE, files |-> fs]
    /\ osFS = [env |-> MissingEnv]

\* ------------------------------------------------------------------ NewConfig
Steps == <<"tz", "embedEnv", "regularEnv", "embedConfig", "regularConfig", "defaults">>
StepSet == {Steps[i] : i \in 1..Len(Steps)}
StepIndex(s) == CHOOSE i \in 1..Len(Steps) : Steps[i] = s

\* config.go:135: rd = &Config{}
ZeroConfig == [Data |-> Nil, timeLocation |-> NilLoc, appName |-> "",
               workDirPath |-> "", timeZone |-> "", timeOffset |-> 0]
NoVal == [Tz |-> "", Loc |-> NilLoc, Offset |-> 0]
NotRun == "notrun"

\* The state at the start of a call of NewConfig.
Enter ==
    /\ cfg = ZeroCfg
    /\ rd = ZeroConfig
    /\ err = Nil
    /\ pc = "tz"
    /\ lastVal = NoVal
    /\ results = [s \in StepSet |-> NotRun]
    /\ loadCalled = FALSE

Init ==
    /\ InputsTZ \/ InputsEnv \/ InputsLayers \/ InputsOrder
    /\ timeLocal = "Local"
    /\ viper = ViperZero
    /\ Enter
    /\ entry = [environ |-> environ, timeLocal |-> timeLocal]
    /\ envAtLoad = environ
    /\ prev = [cfg |-> ZeroCfg, err |-> Nil, results |-> [s \in StepSet |-> NotRun]]
    /\ run = 1

Waterfall_RegularEnvFirst(step, e) ==
    LET order == <<"tz", "regularEnv", "embedEnv", "embedConfig", "regularConfig", "defaults">>
        i == CHOOSE n \in 1..Len(order) : order[n] = step
    IN IF e # Nil \/ i = Len(order) THEN "return" ELSE order[i + 1]

Waterfall_Continue(step, e) ==
    IF StepIndex(step) = Len(Steps) THEN "return" ELSE Steps[StepIndex(step) + 1]

\* hunch.Waterfall (config.go:143): the step after `step`, which returned e.
Waterfall(step, e) ==
    IF e # Nil \/ StepIndex(step) = Len(Steps) THEN "return"
    ELSE Steps[StepIndex(step) + 1]

\* config.go:145-149
StepTimeZone ==
    /\ pc = "tz"
    /\ LET r == initTimeZone(tzArgs, environ, timeLocal, hostZone, sys.setEnvFails) IN
       /\ environ' = r.environ
       /\ timeLocal' = r.timeLocal
       /\ lastVal' = [Tz |-> r.tz, Loc |-> r.loc, Offset |-> r.offset]
       /\ loadCalled' = r.loaded
       /\ err' = r.err
       /\ results' = [results EXCEPT !["tz"] = r.err]
       /\ pc' = Waterfall("tz", r.err)
    /\ UNCHANGED <<inputs, viper, cfg, rd, entry, envAtLoad, prev, run>>

StepEmbedEnv_LoadFirst ==
    /\ pc = "embedEnv"
    /\ LET r == godotenvLoad(environ, embedFS.env) IN
       /\ rd' = IF r.err # Nil THEN rd
                ELSE [rd EXCEPT !.workDirPath = initWorkDirPath(sys.executable, sys.homeDir),
                                !.timeZone = lastVal.Tz,
                                !.timeLocation = lastVal.Loc,
                                !.timeOffset = lastVal.Offset]
       /\ envAtLoad' = environ
       /\ environ' = r.environ
       /\ lastVal' = NoVal
       /\ err' = r.err
       /\ results' = [results EXCEPT !["embedEnv"] = r.err]
       /\ pc' = Waterfall("embedEnv", r.err)
    /\ UNCHANGED <<inputs, loadCalled, timeLocal, viper, cfg, entry, prev, run>>

\* config.go:151-160
StepEmbedEnv ==
    /\ pc = "embedEnv"
    /\ LET r == godotenvLoad(environ, embedFS.env) IN
       /\ rd' = [rd EXCEPT !.workDirPath = initWorkDirPath(sys.executable, sys.homeDir),
                           !.timeZone = lastVal.Tz,
                           !.timeLocation = lastVal.Loc,
                           !.timeOffset = lastVal.Offset]
       /\ envAtLoad' = environ
       /\ environ' = r.environ
       /\ lastVal' = NoVal
       /\ err' = r.err
       /\ results' = [results EXCEPT !["embedEnv"] = r.err]
       /\ pc' = Waterfall("embedEnv", r.err)
    /\ UNCHANGED <<inputs, loadCalled, timeLocal, viper, cfg, entry, prev, run>>

\* config.go:162-168
StepRegularEnv ==
    /\ pc = "regularEnv"
    /\ environ' = regularEnvLoad(environ, afs.envStat, osFS.env)
    /\ err' = Nil
    /\ results' = [results EXCEPT !["regularEnv"] = Nil]
    /\ pc' = Waterfall("regularEnv", Nil)
    /\ UNCHANGED <<inputs, loadCalled, timeLocal, viper, cfg, rd, lastVal, entry, envAtLoad, prev, run>>

\* config.go:170-173
StepEmbedConfig ==
    /\ pc = "embedConfig"
    /\ LET r == fromFS(embedFS.files, Append(configPaths, ParamsPattern), cfg, viper,
                       environ, appName) IN
       /\ viper' = r.viper
       /\ cfg' = r.cfg
       /\ err' = r.err
       /\ results' = [results EXCEPT !["embedConfig"] = r.err]
       /\ pc' = Waterfall("embedConfig", r.err)
    /\ UNCHANGED <<inputs, loadCalled, environ, timeLocal, rd, lastVal, entry, envAtLoad, prev, run>>

\* config.go:175-178
StepRegularConfig ==
    /\ pc = "regularConfig"
    /\ LET r == fromFiles(Append(configPaths, ParamsPattern), cfg, afs.files, viper,
                          environ, appName) IN
       /\ viper' = r.viper
       /\ cfg' = r.cfg
       /\ err' = r.err
       /\ results' = [results EXCEPT !["regularConfig"] = r.err]
       /\ pc' = Waterfall("regularConfig", r.err)
    /\ UNCHANGED <<inputs, loadCalled, environ, timeLocal, rd, lastVal, entry, envAtLoad, prev, run>>

\* config.go:179-181
StepDefaults ==
    /\ pc = "defaults"
    /\ LET r == applyDefaults(cfg) IN
       /\ cfg' = r.cfg
       /\ err' = r.err
       /\ results' = [results EXCEPT !["defaults"] = r.err]
       /\ pc' = Waterfall("defaults", r.err)
    /\ UNCHANGED <<inputs, loadCalled, environ, timeLocal, viper, rd, lastVal, entry, envAtLoad, prev, run>>

\* config.go:184-187
Return ==
    /\ pc = "return"
    /\ rd' = [rd EXCEPT !.Data = "&cfg", !.appName = appName]
    /\ pc' = "done"
    /\ UNCHANGED <<inputs, loadCalled, environ, timeLocal, viper, cfg, err, lastVal, results,
                   entry, envAtLoad, prev, run>>

\* A further call of NewConfig in the same process, with the same arguments
\* and a fresh destination; the process-wide state stays as the last call
\* left it.
Rerun ==
    /\ pc = "done"
    /\ run < MaxRuns
    /\ prev' = [cfg |-> cfg, err |-> err, results |-> results]
    /\ run' = run + 1
    /\ cfg' = ZeroCfg
    /\ rd' = ZeroConfig
    /\ err' = Nil
    /\ pc' = "tz"
    /\ lastVal' = NoVal
    /\ results' = [s \in StepSet |-> NotRun]
    /\ loadCalled' = FALSE
    /\ entry' = [environ |-> environ, timeLocal |-> timeLocal]
    /\ envAtLoad' = environ
    /\ UNCHANGED <<inputs, environ, timeLocal, viper>>

Next ==
    \/ StepTimeZone
    \/ StepEmbedEnv
    \/ StepRegularEnv
    \/ StepEmbedConfig
    \/ StepRegularConfig
    \/ StepDefaults
    \/ Return
    \/ Rerun

Spec == Init /\ [][Next]_vars

\* ===================================================================== claims
\* The patterns each layer is searched with (config.go:171, 176).
LayerPatterns == Append(configPaths, ParamsPattern)
\* The files of a layer that some well-formed pattern matches and that parse.
Merged(files) ==
    {p \in Paths : /\ files[p].kind = "ok"
                   /\ \E i \in 1..Len(LayerPatterns) :
                         ~LayerPatterns[i].bad /\ p \in LayerPatterns[i].paths}
\* The values the merged files of a layer give key k.
LayerVals(files, k) ==
    {files[p].data[k] : p \in {q \in Merged(files) : files[q].data[k] # Absent}}
EnvOf(k) == environ[EnvKeyOf("APP", k)]
\* Both config merges of this call have returned without error.
MergesDone == results["embedConfig"] = Nil /\ results["regularConfig"] = Nil
\* mapstructure's weak decoding of a string into an int field.
WeakInt(s) == IF s = "" THEN 0 ELSE ParseInt(s)
\* The integers the on-disk files give key k.
DiskInts(k) == {ParseInt(v) : v \in {w \in LayerVals(afs.files, k) : ParseOK(w)}}
InAllLayers(k) == LayerVals(embedFS.files, k) # {} /\ LayerVals(afs.files, k) # {}

\* C1 as stated: once both merges have succeeded, a key defined in an
\* embedded file, an on-disk file and as environment variable APP_K is bound
\* to the variable's value; defined in the two files only, to the on-disk
\* file's value.
C1_PrecedenceAsStated ==
    MergesDone =>
      \A k \in Keys :
        InAllLayers(k) =>
          /\ EnvOf(k) # Unset => cfg[k] = WeakInt(EnvOf(k))
          /\ EnvOf(k) = Unset =>
                cfg[k] \in DiskInts(k)

\* C1 amended: the environment variable wins when its value is not empty; a
\* variable that is unset or empty leaves the on-disk file's value.
C1_Precedence ==
    MergesDone =>
      \A k \in Keys :
        InAllLayers(k) =>
          /\ EnvOf(k) \notin {Unset, ""} => cfg[k] = ParseInt(EnvOf(k))
          /\ EnvOf(k) \in {Unset, ""} =>
                cfg[k] \in DiskInts(k)

C1_Witness ==
    /\ pc = "done" /\ MergesDone
    /\ \E k \in Keys :
         /\ InAllLayers(k)
         /\ EnvOf(k) \notin {Unset, ""}
         /\ EnvOf(k) \notin LayerVals(embedFS.files, k) \cup LayerVals(afs.files, k)
         /\ LayerVals(embedFS.files, k) # LayerVals(afs.files, k)
         /\ cfg[k] = ParseInt(EnvOf(k))
    /\ \E k \in Keys :
         /\ InAllLayers(k) /\ EnvOf(k) = Unset
         /\ LayerVals(embedFS.files, k) # LayerVals(afs.files, k)

\* C2: a step that returned an error is the last step that ran, and its
\* error is the one NewConfig returns.
C2_FailFast ==
    \A i \in 1..Len(Steps) :
      results[Steps[i]] \notin {NotRun, Nil} =>
        /\ \A j \in (i + 1)..Len(Steps) : results[Steps[j]] = NotRun
        /\ pc \in {"return", "done"}
        /\ err = results[Steps[i]]

C2_Witness ==
    /\ pc = "done"
    /\ embedFS.env.kind = "missing"
    /\ err = "EmbeddedEnvError"
    /\ results["tz"] = Nil
    /\ results["regularEnv"] = NotRun /\ results["defaults"] = NotRun

\* The zone name the resolver works with, and whether it resolved at all.
WorkingZone == IF Getenv(entry.environ, TZ) = "" THEN tzArgs ELSE Getenv(entry.environ, TZ)
BaseZone == Zone(entry.timeLocal, hostZone)
\* The resolver has just returned to the waterfall.
Resolved == pc = "embedEnv"

\* C3: with TZ set and not empty at the start, the resolver leaves the
\* environment as it was and returns the offset of that zone (the host's
\* offset when the zone does not load), whatever zone was requested.
C3_PresetTZKept ==
    Resolved /\ Getenv(entry.environ, TZ) # "" =>
      /\ environ = entry.environ
      /\ lastVal.Offset =
            IF LoadLocation(entry.environ[TZ]).err = Nil
            THEN ZoneData(LoadLocation(entry.environ[TZ]).loc).offset
            ELSE BaseZone.offset

C3_Witness ==
    /\ Resolved
    /\ entry.environ[TZ] = "UTC" /\ tzArgs = "Asia/Jakarta"
    /\ BaseZone.offset = 25200
    /\ environ[TZ] = "UTC" /\ lastVal.Offset = 0

\* C4 as stated: TZ unset, the requested zone loads: the returned name and
\* offset are those the returned location reports.
C4_MatchesLocation ==
    Resolved /\ Getenv(entry.environ, TZ) = "" /\ tzArgs # ""
             /\ LoadLocation(tzArgs).err = Nil =>
      /\ lastVal.Tz = Zone(lastVal.Loc, hostZone).name
      /\ lastVal.Offset = Zone(lastVal.Loc, hostZone).offset

\* C5: a working zone that does not load is no error: the resolver returns
\* the host's zone name and offset and time.Local, leaves time.Local alone,
\* and the next step starts.
C5_FallbackToHost ==
    /\ results["tz"] # NotRun /\ LoadLocation(WorkingZone).err # Nil
         /\ ~(Getenv(entry.environ, TZ) = "" /\ sys.setEnvFails)
       => results["tz"] = Nil /\ err # "EnvWriteError"
    /\ Resolved /\ LoadLocation(WorkingZone).err # Nil =>
         /\ results["tz"] = Nil
         /\ lastVal = [Tz |-> BaseZone.name, Loc |-> entry.timeLocal,
                        Offset |-> BaseZone.offset]
         /\ timeLocal = entry.timeLocal

C5_Witness ==
    /\ Resolved
    /\ tzArgs = "Mars/Phobos" /\ entry.environ[TZ] = Unset
    /\ hostZone.name = "WIB" /\ lastVal.Tz = "WIB" /\ lastVal.Offset = 25200
    /\ lastVal.Loc = "Local"

\* Some layer gives key k a value.
HasLayerValue(k) ==
    LayerVals(embedFS.files, k) # {} \/ LayerVals(afs.files, k) # {} \/ EnvOf(k) # Unset
\* Every step before the defaulting step returned without error.
LayersLoaded == \A i \in 1..(Len(Steps) - 1) : results[Steps[i]] = Nil

\* C6 as stated: after a call of NewConfig in which every layer loaded, a
\* field no layer gave a value holds its declared default, and the call is a
\* success.
C6_DefaultingLaw ==
    pc = "done" /\ LayersLoaded =>
      /\ err = Nil
      /\ \A k \in Keys : ~HasLayerValue(k) => cfg[k] = DefaultOf[k]

\* C7 as stated: after both env loads, every variable of an existing on-disk
\* env file has the file's value; else a variable that was set keeps its
\* value; else a variable of the embedded env file has the embedded value.
C7_EnvLoaderResult ==
    results["regularEnv"] = Nil =>
      \A k \in EnvVars :
        IF osFS.env.kind = "ok" /\ osFS.env.data[k] # Unset
        THEN environ[k] = osFS.env.data[k]
        ELSE IF envAtLoad[k] # Unset THEN environ[k] = envAtLoad[k]
        ELSE embedFS.env.data[k] # Unset => environ[k] = embedFS.env.data[k]

\* The value Unmarshal decodes for a key the merged map holds.
Effective(k) == IF EnvOf(k) \notin {Unset, ""} THEN EnvOf(k) ELSE viper.config[k]
UnmarshalFails == \E k \in Keys : viper.config[k] # Absent /\ ~ParseOK(Effective(k))
\* The step last run is the embedded (on-disk) config merge.
AfterEmbedConfig == results["embedConfig"] # NotRun /\ results["regularConfig"] = NotRun
AfterRegularConfig == results["regularConfig"] # NotRun /\ results["defaults"] = NotRun

\* The part of C8 about fromFS and fromFiles: each returns an error exactly
\* when the unmarshal fails, and every key of every matched file that parses
\* is in the merged map, whatever other patterns and files are broken.
C8_MergeIsBestEffort ==
    /\ AfterEmbedConfig =>
         /\ results["embedConfig"] # Nil <=> UnmarshalFails
         /\ \A k \in Keys : LayerVals(embedFS.files, k) # {} => viper.config[k] # Absent
    /\ AfterRegularConfig =>
         /\ results["regularConfig"] # Nil <=> UnmarshalFails
         /\ \A k \in Keys : LayerVals(afs.files, k) # {} => viper.config[k] # Absent

\* The scenario of C8: no on-disk config file exists and the embedded merge
\* succeeded; the call succeeds with the embedded values plus defaults.
C8_NoOverrideFile ==
    /\ pc = "done"
    /\ \A p \in Paths : afs.files[p].kind = "absent"
    /\ results["embedConfig"] = Nil
    => /\ err = Nil
       /\ \A k \in Keys : ~HasLayerValue(k) => cfg[k] = DefaultOf[k]

\* C8 as stated.
C8_BestEffort == C8_MergeIsBestEffort /\ C8_NoOverrideFile

Definers(files, k) == {p \in Merged(files) : files[p].data[k] # Absent}
MaxOf(S) == CHOOSE x \in S : \A y \in S : y <= x
\* The last pattern of the layer that matches a file defining k.
LastPattern(files, k) ==
    MaxOf({i \in 1..Len(LayerPatterns) :
             ~LayerPatterns[i].bad /\ LayerPatterns[i].paths \cap Definers(files, k) # {}})
\* The file merged last among those defining k.
LastMerged(files, k) == MaxOf(LayerPatterns[LastPattern(files, k)].paths \cap Definers(files, k))

\* C10 as stated: in each layer the file with the greatest path among those
\* defining a key wins.
C10_GreatestPathWins ==
    \A k \in Keys :
      /\ AfterEmbedConfig /\ Definers(embedFS.files, k) # {} =>
           viper.config[k] = embedFS.files[MaxOf(Definers(embedFS.files, k))].data[k]
      /\ AfterRegularConfig /\ Definers(afs.files, k) # {} =>
           viper.config[k] = afs.files[MaxOf(Definers(afs.files, k))].data[k]

\* C10 amended: in each layer the file merged last wins: of the files the
\* last matching pattern matches, the one with the greatest path.
C10_LastMergedWins ==
    \A k \in Keys :
      /\ AfterEmbedConfig /\ Definers(embedFS.files, k) # {} =>
           viper.config[k] = embedFS.files[LastMerged(embedFS.files, k)].data[k]
      /\ AfterRegularConfig /\ Definers(afs.files, k) # {} =>
           viper.config[k] = afs.files[LastMerged(afs.files, k)].data[k]

C10_Witness ==
    /\ AfterRegularConfig
    /\ Len(configPaths) = 1 /\ configPaths[1].paths = {2}
    /\ Definers(afs.files, "db.port") = {1, 2}
    /\ afs.files[1].data["db.port"] # afs.files[2].data["db.port"]
    /\ viper.config["db.port"] = afs.files[1].data["db.port"]

\* C11 as stated: while the on-disk layer is still unmerged the destination
\* has not been written and no unmarshal error has been raised.
C11_SingleTerminalUnmarshal ==
    results["regularConfig"] = NotRun =>
      /\ cfg = ZeroCfg
      /\ err # "UnmarshalError"

\* C12: a step has started only when every step before it in the fixed
\* order has returned without error; the step about to start is the first
\* that has not run; and until the embedded env load has run no env file has
\* written a variable.
C12_StepOrder ==
    /\ \A i \in 1..Len(Steps) :
         results[Steps[i]] # NotRun =>
           \A j \in 1..(i - 1) : results[Steps[j]] = Nil
    /\ pc \in StepSet =>
         /\ \A j \in 1..(StepIndex(pc) - 1) : results[Steps[j]] = Nil
         /\ \A j \in StepIndex(pc)..Len(Steps) : results[Steps[j]] = NotRun
    /\ results["embedEnv"] = NotRun =>
         \A k \in EnvVars \ {TZ} : environ[k] = entry.environ[k]

C12_Witness ==
    /\ pc = "done"
    /\ \A i \in 1..Len(Steps) : results[Steps[i]] # NotRun
    /\ afs.envStat /\ osFS.env.kind = "ok"
    /\ osFS.env.data["APP_DB_PORT"] \notin {Unset, entry.environ["APP_DB_PORT"]}
    /\ embedFS.env.data["APP_DB_PORT"] \notin {Unset, osFS.env.data["APP_DB_PORT"]}
    /\ environ["APP_DB_PORT"] = osFS.env.data["APP_DB_PORT"]

\* C13 as stated: the working zone loads.  With a localized offset other
\* than the base offset, time.Local becomes the loaded location and the
\* localized name and offset are returned; with equal offsets time.Local is
\* left alone and the base name and base offset are returned.
C13_Reconcile ==
    Resolved /\ LoadLocation(WorkingZone).err = Nil =>
      LET loc == LoadLocation(WorkingZone).loc
          localized == Zone(loc, hostZone)
      IN IF localized.offset # BaseZone.offset
         THEN /\ timeLocal = loc
              /\ lastVal.Tz = localized.name /\ lastVal.Offset = localized.offset
         ELSE /\ timeLocal = entry.timeLocal
              /\ lastVal.Tz = BaseZone.name /\ lastVal.Offset = BaseZone.offset

\* C14 as stated: at every point of a run, every environment variable that
\* had a (non-empty) value before the run still has that value.
C14_Additive ==
    \A k \in EnvVars :
      Getenv(entry.environ, k) # "" => environ[k] = entry.environ[k]

\* The on-disk env load of this run has written variable k.
Overloaded(k) ==
    /\ results["regularEnv"] # NotRun
    /\ afs.envStat /\ osFS.env.kind = "ok" /\ osFS.env.data[k] # Unset

\* C14 amended: a variable that had a non-empty value before the run has the
\* on-disk env file's value once the regular env step has loaded a file that
\* names it, and its old value at every other point; a variable that was
\* set is never unset.
C14_AdditiveButOverload ==
    \A k \in EnvVars :
      /\ Getenv(entry.environ, k) # "" =>
            environ[k] = IF Overloaded(k) THEN osFS.env.data[k] ELSE entry.environ[k]
      /\ entry.environ[k] # Unset => environ[k] # Unset

C14_Witness ==
    /\ pc = "done" /\ results["regularEnv"] = Nil
    /\ entry.environ[TZ] = "UTC" /\ Overloaded(TZ) /\ environ[TZ] = "Mars/Phobos"
    /\ entry.environ["APP_DB_PORT"] = "0" /\ ~Overloaded("APP_DB_PORT")
    /\ embedFS.env.data["APP_DB_PORT"] = "1" /\ environ["APP_DB_PORT"] = "0"

\* C15 as stated: the working directory the handle is given is the
\* executable's directory when os.Executable succeeds, else the home
\* directory, and never the empty path, whichever lookups fail.
C15_WorkDirNeverEmpty ==
    results["embedEnv"] # NotRun =>
      /\ sys.executable # Nil => rd.workDirPath = Dir(sys.executable)
      /\ sys.executable = Nil => rd.workDirPath = sys.homeDir
      /\ rd.workDirPath # ""

\* C16: TZ reads as empty when the resolver starts.  If writing TZ fails the
\* resolver returns that error with no location asked for, the environment
\* and time.Local as they were, and NewConfig returns the error with no
\* further step run.  Otherwise TZ holds the requested zone when the
\* resolver returns, and the location returned is the one that zone loads
\* (time.Local as it was when the zone does not load).
C16_UnsetTZ ==
    Getenv(entry.environ, TZ) = "" /\ results["tz"] # NotRun =>
      IF sys.setEnvFails
      THEN /\ results["tz"] = "EnvWriteError" /\ err = "EnvWriteError"
           /\ pc \in {"return", "done"}
           /\ ~loadCalled
           /\ environ = entry.environ /\ timeLocal = entry.timeLocal
           /\ \A i \in 2..Len(Steps) : results[Steps[i]] = NotRun
      ELSE /\ results["tz"] = Nil /\ loadCalled
           /\ Resolved =>
                /\ environ = [entry.environ EXCEPT ![TZ] = tzArgs]
                /\ lastVal.Loc = IF LoadLocation(tzArgs).err = Nil
                                 THEN LoadLocation(tzArgs).loc ELSE entry.timeLocal

C16_Witness ==
    /\ pc = "done" /\ sys.setEnvFails /\ entry.environ[TZ] = Unset
    /\ tzArgs = "Asia/Jakarta" /\ hostZone.name = "UTC"
    /\ err = "EnvWriteError" /\ ~loadCalled
    /\ timeLocal = "Local" /\ environ[TZ] = Unset

\* The four fields of the handle that the second step assigns.
Fields(h) == <<h.workDirPath, h.timeZone, h.timeLocation, h.timeOffset>>
\* What the resolvers return to a call that started in state `entry`.
ResolvedFields ==
    LET r == initTimeZone(tzArgs, entry.environ, entry.timeLocal, hostZone, sys.setEnvFails)
    IN <<initWorkDirPath(sys.executable, sys.homeDir), r.tz, r.loc, r.offset>>

\* C17: at every point the four fields are all zero or all the resolved
\* values; the handle NewConfig returns names the application and the
\* destination, and its four fields are the resolved values (with a location)
\* exactly when the timezone resolution succeeded, else all zero.
C17_Handle ==
    /\ Fields(rd) \in {Fields(ZeroConfig), ResolvedFields}
    /\ pc = "done" =>
         /\ rd.appName = appName /\ rd.Data = "&cfg"
         /\ results["tz"] = Nil =>
               Fields(rd) = ResolvedFields /\ rd.timeLocation # NilLoc
         /\ results["tz"] # Nil => Fields(rd) = Fields(ZeroConfig)

C17_Witness ==
    /\ pc = "done" /\ err = "EmbeddedEnvError"
    /\ rd.appName = appName /\ rd.Data = "&cfg"
    /\ rd.workDirPath = "/opt/app/bin" /\ rd.timeZone = "WIB"
    /\ rd.timeLocation = "Asia/Jakarta" /\ rd.timeOffset = 25200

\* C18 as stated: from the moment the resolver has returned, TZ keeps the
\* value the resolver left it with; and when every step up to the defaulting
\* step has returned without error, the location and offset of the handle are
\* those the resolver derives from the value TZ has at the end.
C18_TZStable ==
    /\ results["embedEnv"] # NotRun => environ[TZ] = envAtLoad[TZ]
    /\ pc = "done" /\ LayersLoaded =>
         LET r == initTimeZone(tzArgs, environ, entry.timeLocal, hostZone, FALSE)
         IN rd.timeLocation = r.loc /\ rd.timeOffset = r.offset

\* The on-disk env load of this run wrote variable e; the embedded env file
\* names variable e.
FromDiskEnv(e) == afs.envStat /\ osFS.env.kind = "ok" /\ osFS.env.data[e] # Unset
FromEmbedEnv(e) == embedFS.env.kind = "ok" /\ embedFS.env.data[e] # Unset
\* Variable e was not set when the call started and exactly one of the two
\* env files has introduced it.
Introduced(e) ==
    /\ results["regularEnv"] = Nil /\ entry.environ[e] = Unset
    /\ FromDiskEnv(e) # FromEmbedEnv(e)
\* Some merged config file of either layer defines key k.
InSomeFile(k) == Definers(embedFS.files, k) \cup Definers(afs.files, k) # {}
\* No config merge starts before both env loads have returned.
EnvBeforeMerges ==
    results["embedConfig"] # NotRun =>
      results["embedEnv"] = Nil /\ results["regularEnv"] = Nil

\* C19 as stated: the env loads come before the merges, and after both
\* merges a key that some config file defines is bound to the value of its
\* variable APP_K whenever an env file introduced that variable.
C19_EnvFileOverrides ==
    /\ EnvBeforeMerges
    /\ MergesDone =>
         \A k \in Keys :
           Introduced(EnvKeyOf("APP", k)) /\ InSomeFile(k) =>
             cfg[k] = WeakInt(EnvOf(k))

\* C19 amended: the introduced variable wins when its value is not empty; a
\* variable introduced with the empty value leaves the files' value.
C19_NonEmptyOverrides ==
    /\ EnvBeforeMerges
    /\ MergesDone =>
         \A k \in Keys :
           Introduced(EnvKeyOf("APP", k)) /\ InSomeFile(k) =>
             IF EnvOf(k) # ""
             THEN ParseOK(EnvOf(k)) /\ cfg[k] = ParseInt(EnvOf(k))
             ELSE cfg[k] = ParseInt(viper.config[k])

C19_Witness ==
    /\ pc = "done" /\ MergesDone
    /\ entry.environ["APP_DB_PORT"] = Unset
    /\ embedFS.env.data["APP_DB_PORT"] = Unset
    /\ afs.envStat /\ osFS.env.kind = "ok" /\ osFS.env.data["APP_DB_PORT"] = "0"
    /\ LayerVals(embedFS.files, "db.port") = {"1"}
    /\ LayerVals(afs.files, "db.port") = {IntTokens[Len(IntTokens)]}
    /\ cfg["db.port"] = 0

====
